---- MODULE Spec2Model ----
(***************************************************************************)
(* A model of the FITS viewer: FITSFileManager (fits_file_manager.py),     *)
(* ImageDisplayEngine (image_display_engine.py), HistogramWidget           *)
(* (histogram_widget.py) and the MainWindow handlers that drive them       *)
(* (main_window.py).                                                       *)
(*                                                                         *)
(* Numbers.  Array elements are integers.  The scalars the program holds   *)
(* as Python floats (vmin, vmax, data_min, data_max, the marker lines) are *)
(* kept in fixed point, in units of 1/Scale: the percentiles of            *)
(* auto_scale and the slider mappings value/2000.0 and value/1000.0 are    *)
(* then exact.  An integer element type has the range [TypeMin, TypeMax]   *)
(* of np.iinfo, and numpy scalar arithmetic in that type wraps around.     *)
(*                                                                         *)
(* Arrays.  An ndarray is a record [shape, dtype, v] with v the elements   *)
(* in row-major (C) order.  Python's None is NoArray for an array and <<>> *)
(* for a scalar (a scalar x is <<x>>).                                     *)
(***************************************************************************)
EXTENDS Integers, Sequences, FiniteSets, TLC

\* ------------------------------------------------------------------ bounds

\* np.iinfo(dtype).max of the model's integer element type.
TypeMax == 7

\* np.iinfo(dtype).min of the model's integer element type.
TypeMin == 0 - TypeMax - 1

\* ------------------------------------------------------- program constants

\* min_slider.setMaximum(2000)
MinSliderMaximum == 2000

\* max_slider.setMaximum(1000)
MaxSliderMaximum == 1000

\* percentile_low=0.5 and percentile_high=99.5, in thousandths of the range.
PercentileLow == 5

PercentileHigh == 995

\* angle_spinbox.setMinimum(-360) and setMaximum(360)
AngleMinimum == -360

AngleMaximum == 360

\* The fixed-point denominator of the scalars.
Scale == MinSliderMaximum

None == <<>>

Some(x) == <<x>>

\* ------------------------------------------------------------------ arrays

NoArray == [shape |-> <<>>, dtype |-> "none", v |-> <<>>]

\* A float element that is not finite (NaN); no integer element equals it.
NaN == 0 - 1000000

IsFinite(x) == x # NaN

Array(shape, dtype, v) == [shape |-> shape, dtype |-> dtype, v |-> v]

ndim(a) == Len(a.shape)

RECURSIVE Prod(_)
Prod(s) == IF s = <<>> THEN 1 ELSE Head(s) * Prod(Tail(s))

\* data.copy()
copy(a) == a

RECURSIVE Insert(_, _)
Insert(x, s) ==
    IF s = <<>> THEN <<x>>
    ELSE IF x <= Head(s) THEN <<x>> \o s
    ELSE <<Head(s)>> \o Insert(x, Tail(s))

RECURSIVE Sort(_)
Sort(s) == IF s = <<>> THEN <<>> ELSE Insert(Head(s), Sort(Tail(s)))

\* The finite elements, sorted: data[np.isfinite(data)] in ascending order.
valid_data(a) == Sort(SelectSeq(a.v, IsFinite))

\* scipy.ndimage.rotate by 90 degrees with reshape=True in the plane of the
\* first two axes (axes=(1, 0)): out[i][j][r] = in[j][B-1-i][r], the shape
\* (A, B, ...) becoming (B, A, ...).  At a multiple of 90 degrees cosdg and
\* sindg are exact and order-1 interpolation samples grid points only.
Rot90(a) ==
    LET A == a.shape[1]
        B == a.shape[2]
        R == Prod(SubSeq(a.shape, 3, Len(a.shape)))
    IN  [shape |-> <<B, A>> \o SubSeq(a.shape, 3, Len(a.shape)),
         dtype |-> a.dtype,
         v |-> [k \in 1..(A * B * R) |->
                  LET i == (k - 1) \div (A * R)
                      j == ((k - 1) \div R) % A
                      r == (k - 1) % R
                  IN  a.v[(j * B + (B - 1 - i)) * R + r + 1]]]

\* ndimage.rotate(input, angle, reshape=True, order=1, mode='constant',
\* cval=0, prefilter=False) for angle in {90, 180, 270}.
ndimage_rotate(a, angle) ==
    IF angle = 90 THEN Rot90(a)
    ELSE IF angle = 180 THEN Rot90(Rot90(a))
    ELSE IF angle = 270 THEN Rot90(Rot90(Rot90(a)))
    ELSE a

\* data[i] of a channel-major array (3, H, W).
Channel(a, i) ==
    LET n == a.shape[2] * a.shape[3]
    IN  [shape |-> <<a.shape[2], a.shape[3]>>, dtype |-> a.dtype,
         v |-> SubSeq(a.v, i * n + 1, (i + 1) * n)]

\* np.array([c0, c1, c2]) of three arrays of one shape.
Stack3(c0, c1, c2) ==
    [shape |-> <<3>> \o c0.shape, dtype |-> c0.dtype, v |-> c0.v \o c1.v \o c2.v]

\* np.flip(data, axis=-1)
flip_last(a) ==
    LET W == a.shape[Len(a.shape)]
    IN  [a EXCEPT !.v = [k \in 1..Len(a.v) |->
            LET q == (k - 1) \div W
                j == (k - 1) % W
            IN  a.v[q * W + (W - 1 - j) + 1]]]

\* np.flip(data, axis=-2); numpy raises AxisError when ndim < 2.
flip_second_last(a) ==
    LET W == a.shape[Len(a.shape)]
        H == a.shape[Len(a.shape) - 1]
    IN  [a EXCEPT !.v = [k \in 1..Len(a.v) |->
            LET p == (k - 1) \div (H * W)
                i == ((k - 1) \div W) % H
                j == (k - 1) % W
            IN  a.v[(p * H + (H - 1 - i)) * W + j + 1]]]

\* 0.299 * r + 0.587 * g + 0.114 * b, a float array (exact on the arrays of
\* the catalogue, whose RGB elements are multiples of 1000).
grayscale(a) ==
    LET r == Channel(a, 0)
        g == Channel(a, 1)
        b == Channel(a, 2)
    IN  [shape |-> r.shape, dtype |-> "float",
         v |-> [k \in 1..Len(r.v) |->
                  (299 * r.v[k] + 587 * g.v[k] + 114 * b.v[k]) \div 1000]]

\* ------------------------------------------------------------- the files

\* The paths the user can give.  GoodFiles open; fits.open raises IOError on
\* "missing.fits", fits.VerifyError on "corrupt.fits" and another Exception
\* on "odd.fits".
GoodFiles == {"a.fits", "b.fits"}

BadFiles == {"missing.fits", "corrupt.fits", "odd.fits"}

Files == GoodFiles \cup BadFiles

IMG == Array(<<1, 3>>, "int", <<0, 1, 3>>)

SPECTRUM == Array(<<3>>, "int", <<1, 2, 3>>)

\* Channel-major RGB, shape (3, 1, 2).
RGB == Array(<<3, 1, 2>>, "float", <<1000, 2000, 0, 1000, 2000, 2000>>)

\* A saturated integer image: every element is the largest of its type.
SATURATED == Array(<<1, 2>>, "int", <<TypeMax, TypeMax>>)

\* hdu.data of every HDU of a file, in order; NoArray is a header-only HDU.
HDUs(f) ==
    IF f = "a.fits" THEN <<IMG, SPECTRUM>>
    ELSE IF f = "b.fits" THEN <<RGB, NoArray, SATURATED>>
    ELSE <<>>

\* What fits.open(filepath, memmap=False) does.
fits_open(f) ==
    IF f \in GoodFiles THEN "ok"
    ELSE IF f = "missing.fits" THEN "IOError"
    ELSE IF f = "corrupt.fits" THEN "VerifyError"
    ELSE "Exception"

\* -------------------------------------------------------- FITSFileManager

FM_init == [hdulist |-> "None", filepath |-> "None", num_hdus |-> 0]

close_file(fm) ==
    IF fm.hdulist # "None"
    THEN [fm EXCEPT !.hdulist = "None", !.filepath = "None", !.num_hdus = 0]
    ELSE fm

\* FITSFileManager.open_file: the manager after the call and what it returns.
\* An open that attempts the new file with the previous one still open.
FM_open_file_keeping_previous(fm, f) ==
    IF fits_open(f) = "ok"
    THEN [fm |-> [hdulist |-> f, filepath |-> f, num_hdus |-> Len(HDUs(f))],
          ret |-> TRUE]
    ELSE [fm |-> fm, ret |-> FALSE]

FM_open_file(fm, f) ==
    LET closed == close_file(fm)
    IN  IF fits_open(f) = "ok"
        THEN [fm |-> [hdulist |-> f, filepath |-> f, num_hdus |-> Len(HDUs(f))],
              ret |-> TRUE]
        ELSE [fm |-> closed, ret |-> FALSE]

get_hdu_info(fm, index) ==
    IF fm.hdulist = "None" \/ index < 0 \/ index >= fm.num_hdus
    THEN [has_data |-> FALSE]
    ELSE [has_data |-> HDUs(fm.hdulist)[index + 1] # NoArray]

get_data(fm, index) ==
    IF fm.hdulist = "None" \/ index < 0 \/ index >= fm.num_hdus
    THEN NoArray
    ELSE HDUs(fm.hdulist)[index + 1]

\* ----------------------------------------------------- ImageDisplayEngine

Modes == {"linear", "log", "sqrt", "asinh"}

Engine_init ==
    [current_data |-> NoArray, vmin |-> None, vmax |-> None,
     scaling_mode |-> "linear", colormap |-> "viridis", axes |-> "empty"]

\* data.shape[i] // 2 for every leading axis, as one row-major offset.
RECURSIVE MiddleOffset(_, _)
MiddleOffset(lead, acc) ==
    IF lead = <<>> THEN acc
    ELSE MiddleOffset(Tail(lead), acc * Head(lead) + (Head(lead) \div 2))

\* np.transpose(data, (1, 2, 0)) of a (3, H, W) array.
transpose_120(a) ==
    LET H == a.shape[2]
        W == a.shape[3]
    IN  [shape |-> <<H, W, 3>>, dtype |-> a.dtype,
         v |-> [k \in 1..(H * W * 3) |->
                  LET h == (k - 1) \div (W * 3)
                      w == ((k - 1) \div 3) % W
                      c == (k - 1) % 3
                  IN  a.v[(c * H + h) * W + w + 1]]]

\* A reducer that slices every leading axis at index 0.
prepare_data_first_slice(data) ==
    IF data = NoArray THEN NoArray
    ELSE IF ndim(data) = 1 THEN NoArray
    ELSE IF ndim(data) = 2 THEN data
    ELSE IF ndim(data) = 3 /\ data.shape[1] = 3 THEN transpose_120(data)
    ELSE LET n == ndim(data)
             H == data.shape[n - 1]
             W == data.shape[n]
         IN  [shape |-> <<H, W>>, dtype |-> data.dtype,
              v |-> SubSeq(data.v, 1, H * W)]

prepare_data_for_display(data) ==
    IF data = NoArray THEN NoArray
    ELSE IF ndim(data) = 1 THEN NoArray
    ELSE IF ndim(data) = 2 THEN data
    ELSE IF ndim(data) = 3 /\ data.shape[1] = 3 THEN transpose_120(data)
    ELSE LET n == ndim(data)
             H == data.shape[n - 1]
             W == data.shape[n]
             off == MiddleOffset(SubSeq(data.shape, 1, n - 2), 0)
         IN  [shape |-> <<H, W>>, dtype |-> data.dtype,
              v |-> SubSeq(data.v, off * H * W + 1, (off + 1) * H * W)]

\* What the axes show after update_display.
update_display(e) ==
    IF e.current_data = NoArray THEN e
    ELSE IF prepare_data_for_display(e.current_data) = NoArray
         THEN [e EXCEPT !.axes = "empty"]
         ELSE [e EXCEPT !.axes = "image"]

\* np.percentile(s, q) of the sorted finite values, q in thousandths, in
\* units of 1/Scale (linear interpolation between the two nearest ranks).
percentile(s, q) ==
    LET t == q * (Len(s) - 1)
        lo == t \div 1000
        rem == t % 1000
    IN  IF rem = 0 THEN Scale * s[lo + 1]
        ELSE Scale * s[lo + 1] + (Scale \div 1000) * rem * (s[lo + 2] - s[lo + 1])

\* vmin + 1 where vmin is valid_data.min(), a numpy scalar of the array's
\* element type: the sum of an integer type wraps around at its maximum.
scalar_plus_one(dtype, x) ==
    IF dtype = "int" /\ x + 1 > TypeMax THEN TypeMin ELSE x + 1

\* auto_scale: the pair (vmin, vmax), in units of 1/Scale.
auto_scale(e) ==
    IF e.current_data = NoArray THEN <<0, Scale>>
    ELSE LET s == valid_data(e.current_data)
         IN  IF Len(s) = 0 THEN <<0, Scale>>
             ELSE LET pl == percentile(s, PercentileLow)
                      ph == percentile(s, PercentileHigh)
                  IN  IF pl >= ph
                      THEN IF s[1] >= s[Len(s)]
                           THEN <<Scale * s[1],
                                  Scale * scalar_plus_one(e.current_data.dtype, s[1])>>
                           ELSE <<Scale * s[1], Scale * s[Len(s)]>>
                      ELSE <<pl, ph>>

set_data(e, data) ==
    IF data = NoArray THEN e
    ELSE LET e1 == [e EXCEPT !.current_data = data]
             lim == auto_scale(e1)
         IN  update_display([e1 EXCEPT !.vmin = Some(lim[1]), !.vmax = Some(lim[2])])

\* A check that lets equal limits through.
set_scaling_limits_inclusive(e, vmin, vmax) ==
    IF vmin <= vmax
    THEN update_display([e EXCEPT !.vmin = Some(vmin), !.vmax = Some(vmax)])
    ELSE e

set_scaling_limits(e, vmin, vmax) ==
    IF vmin < vmax
    THEN update_display([e EXCEPT !.vmin = Some(vmin), !.vmax = Some(vmax)])
    ELSE e

set_scaling_mode(e, mode) ==
    IF mode \in Modes THEN update_display([e EXCEPT !.scaling_mode = mode]) ELSE e

set_colormap(e, name) == update_display([e EXCEPT !.colormap = name])

\* -------------------------------------------------------- HistogramWidget

\* bars is the array whose histogram the axes show; vmin_line and vmax_line
\* are the two markers drawn on the axes.
Hist_init ==
    [current_data |-> NoArray, bars |-> NoArray, vmin_line |-> None, vmax_line |-> None]

update_histogram(h, data, vmin, vmax) ==
    IF data = NoArray THEN h
    ELSE IF Len(valid_data(data)) = 0
         THEN [current_data |-> data, bars |-> NoArray,
               vmin_line |-> None, vmax_line |-> None]
         ELSE [current_data |-> data, bars |-> data,
               vmin_line |-> vmin, vmax_line |-> vmax]

\* A marker update that draws the histogram again, with no array kept.
update_scaling_lines_recomputing(h, vmin, vmax) ==
    IF h.current_data = NoArray THEN h
    ELSE [current_data |-> NoArray, bars |-> NoArray,
          vmin_line |-> Some(vmin), vmax_line |-> Some(vmax)]

update_scaling_lines(h, vmin, vmax) ==
    IF h.current_data = NoArray THEN h
    ELSE [h EXCEPT !.vmin_line = Some(vmin), !.vmax_line = Some(vmax)]

\* ------------------------------------------------------------- MainWindow
\* A handler maps the program state S = [fm, eng, hist, win, ui] to the state
\* it leaves.  win holds MainWindow's own fields, ui the widgets' state:
\* the two slider positions, the number of rows of hdu_list_widget, the
\* status bar's message, whether an exception left a handler uncaught, and
\* the counter of the status bar's animation.

Win_init ==
    [current_hdu_index |-> 0, original_rgb_data |-> NoArray,
     original_data |-> NoArray, rotation_angle |-> 0,
     flip_horizontal |-> FALSE, flip_vertical |-> FALSE,
     data_min |-> 0, data_max |-> Scale]

UI_init ==
    [min_slider |-> 0, max_slider |-> MaxSliderMaximum, hdu_list |-> 0,
     status |-> "ready", unhandled |-> FALSE, status_pulse |-> 0]

\* MainWindow.__init__
MainWindow_init ==
    [fm |-> FM_init, eng |-> set_scaling_mode(Engine_init, "log"),
     hist |-> Hist_init, win |-> Win_init, ui |-> UI_init]

\* The messages that confirm a completed view operation (the ones the
\* handlers prefix with a check mark).
Confirmations ==
    {"rotated", "horizontal_flip", "vertical_flip", "transformations_reset",
     "auto_scaled", "view_reset", "view_reset_rgb", "converted_to_grayscale"}

\* The status bar keeps the last message; the confirmations are kept as one
\* message, every other message as itself.
showMessage(S, msg) ==
    [S EXCEPT !.ui.status = IF msg \in Confirmations THEN "confirmation" ELSE msg]

is_rgb(data) == ndim(data) = 3 /\ data.shape[1] = 3

\* int(x / y): the quotient truncated towards zero (y > 0).
int_div(x, y) == IF x >= 0 THEN x \div y ELSE 0 - ((0 - x) \div y)

clamp(x, lo, hi) == IF x < lo THEN lo ELSE IF x > hi THEN hi ELSE x

on_min_slider_changed(S, value) ==
    IF S.eng.current_data # NoArray
    THEN LET data_range == S.win.data_max - S.win.data_min
             actual_value == S.win.data_min + value * (data_range \div MinSliderMaximum)
         IN  IF actual_value < S.eng.vmax[1]
             THEN [S EXCEPT
                     !.eng = update_display([S.eng EXCEPT !.vmin = Some(actual_value)]),
                     !.hist = update_scaling_lines(S.hist, actual_value, S.eng.vmax[1])]
             ELSE S
    ELSE S

on_max_slider_changed(S, value) ==
    IF S.eng.current_data # NoArray
    THEN LET data_range == S.win.data_max - S.win.data_min
             actual_value == S.win.data_min + value * (data_range \div MaxSliderMaximum)
         IN  IF actual_value > S.eng.vmin[1]
             THEN [S EXCEPT
                     !.eng = update_display([S.eng EXCEPT !.vmax = Some(actual_value)]),
                     !.hist = update_scaling_lines(S.hist, S.eng.vmin[1], actual_value)]
             ELSE S
    ELSE S

\* QSlider.setValue: the value is bounded to the slider's range, and
\* valueChanged calls the connected handler only when the value changes.
min_slider_setValue(S, pos) ==
    LET value == clamp(pos, 0, MinSliderMaximum)
    IN  IF value = S.ui.min_slider THEN S
        ELSE on_min_slider_changed([S EXCEPT !.ui.min_slider = value], value)

max_slider_setValue(S, pos) ==
    LET value == clamp(pos, 0, MaxSliderMaximum)
    IN  IF value = S.ui.max_slider THEN S
        ELSE on_max_slider_changed([S EXCEPT !.ui.max_slider = value], value)

update_slider_ranges(S) ==
    IF S.eng.current_data # NoArray /\ Len(valid_data(S.eng.current_data)) > 0
    THEN LET s == valid_data(S.eng.current_data)
             data_min == Scale * s[1]
             data_max == Scale * s[Len(s)]
             S1 == [S EXCEPT !.win.data_min = data_min, !.win.data_max = data_max]
         IN  IF data_max > data_min
             THEN LET min_pos == int_div(S.eng.vmin[1] - data_min,
                                         (data_max - data_min) \div MinSliderMaximum)
                      max_pos == int_div(S.eng.vmax[1] - data_min,
                                         (data_max - data_min) \div MaxSliderMaximum)
                  IN  max_slider_setValue(min_slider_setValue(S1, min_pos), max_pos)
             ELSE S1
    ELSE S

on_rgb_to_grayscale(S) ==
    IF S.eng.current_data = NoArray THEN S
    ELSE IF is_rgb(S.eng.current_data)
    THEN LET data == S.eng.current_data
             gray == grayscale(data)
             S1 == [S EXCEPT !.win.original_rgb_data = copy(data),
                             !.eng = set_data([S.eng EXCEPT !.current_data = gray], gray)]
             S2 == update_slider_ranges(S1)
             S3 == [S2 EXCEPT !.hist = update_histogram(S2.hist, gray, S2.eng.vmin, S2.eng.vmax)]
         IN  showMessage(S3, "converted_to_grayscale")
    ELSE S

on_colormap_changed(S, name) == [S EXCEPT !.eng = set_colormap(S.eng, name)]

on_scaling_mode_changed(S, mode) == [S EXCEPT !.eng = set_scaling_mode(S.eng, mode)]

on_reset_colormap(S) ==
    IF S.eng.current_data = NoArray THEN showMessage(S, "no_image_to_reset")
    ELSE LET R ==
               IF S.win.original_rgb_data # NoArray
               THEN LET rgb == S.win.original_rgb_data
                        S1 == [S EXCEPT !.eng = set_data([S.eng EXCEPT !.current_data = rgb], rgb)]
                        S2 == update_slider_ranges(S1)
                        S3 == [S2 EXCEPT !.hist =
                                 update_histogram(S2.hist, rgb, S2.eng.vmin, S2.eng.vmax)]
                    IN  showMessage(S3, "view_reset_rgb")
               ELSE LET S1 == on_colormap_changed(S, "viridis")
                        S2 == on_scaling_mode_changed(S1, "log")
                        lim == auto_scale(S2.eng)
                        S3 == [S2 EXCEPT !.eng = set_scaling_limits(S2.eng, lim[1], lim[2])]
                        S4 == update_slider_ranges(S3)
                        S5 == [S4 EXCEPT !.hist =
                                 update_histogram(S4.hist, S4.eng.current_data,
                                                  S4.eng.vmin, S4.eng.vmax)]
                    IN  showMessage(S5, "view_reset")
         IN  [R EXCEPT !.eng = update_display(R.eng)]

on_auto_scale(S) ==
    IF S.eng.current_data # NoArray
    THEN LET lim == auto_scale(S.eng)
             S1 == [S EXCEPT !.eng = set_scaling_limits(S.eng, lim[1], lim[2])]
             S2 == update_slider_ranges(S1)
             S3 == [S2 EXCEPT !.hist = update_scaling_lines(S2.hist, lim[1], lim[2])]
         IN  showMessage(S3, "auto_scaled")
    ELSE S

\* An update that hands every array, whatever its rank, to the engine.
update_image_display_without_summary(S) ==
    IF ~get_hdu_info(S.fm, S.win.current_hdu_index).has_data
    THEN [S EXCEPT !.eng.axes = "no_image_data"]
    ELSE LET data == get_data(S.fm, S.win.current_hdu_index)
         IN  IF data = NoArray THEN [S EXCEPT !.eng.axes = "failed_to_load"]
             ELSE LET S1 == [S EXCEPT !.win.original_rgb_data =
                                        IF is_rgb(data) THEN copy(data) ELSE NoArray]
                      S2 == [S1 EXCEPT !.eng = set_data(S1.eng, data)]
                      S3 == update_slider_ranges(S2)
                  IN  [S3 EXCEPT !.hist =
                         update_histogram(S3.hist, data, S3.eng.vmin, S3.eng.vmax)]

update_image_display(S) ==
    IF ~get_hdu_info(S.fm, S.win.current_hdu_index).has_data
    THEN [S EXCEPT !.eng.axes = "no_image_data"]
    ELSE LET data == get_data(S.fm, S.win.current_hdu_index)
         IN  IF data = NoArray THEN [S EXCEPT !.eng.axes = "failed_to_load"]
             ELSE LET S1 == [S EXCEPT !.win.original_rgb_data =
                                        IF is_rgb(data) THEN copy(data) ELSE NoArray]
                  IN  IF ndim(data) = 1 THEN [S1 EXCEPT !.eng.axes = "spectrum_text"]
                      ELSE LET S2 == [S1 EXCEPT !.eng = set_data(S1.eng, data)]
                               S3 == update_slider_ranges(S2)
                           IN  [S3 EXCEPT !.hist =
                                  update_histogram(S3.hist, data, S3.eng.vmin, S3.eng.vmax)]

update_displays(S) == update_image_display(S)

\* A reset that sets the angle and the flags and keeps the captured array.
clear_transformation_state_keeping_data(S) ==
    [S EXCEPT !.win.rotation_angle = 0, !.win.flip_horizontal = FALSE,
              !.win.flip_vertical = FALSE]

\* The transformation state of a new file or a newly selected HDU.
clear_transformation_state(S) ==
    [S EXCEPT !.win.rotation_angle = 0, !.win.flip_horizontal = FALSE,
              !.win.flip_vertical = FALSE, !.win.original_data = NoArray,
              !.win.original_rgb_data = NoArray]

\* A failure branch that resets the transformation state before reporting.
open_file_failed_resetting(S) ==
    showMessage(clear_transformation_state(S), "failed_to_open")

\* MainWindow.open_file: the failure branch.
open_file_failed(S) == showMessage(S, "failed_to_open")

open_file(S, filepath) ==
    LET r == FM_open_file(S.fm, filepath)
        S1 == [showMessage(S, "loading") EXCEPT !.fm = r.fm]
    IN  IF ~r.ret THEN open_file_failed(S1)
        ELSE LET S2 == clear_transformation_state(S1)
                 S3 == [S2 EXCEPT !.ui.hdu_list = S2.fm.num_hdus]
                 S4 == IF S3.fm.num_hdus > 0
                       THEN update_displays([S3 EXCEPT !.win.current_hdu_index = 0])
                       ELSE S3
             IN  showMessage(S4, "loaded")

on_hdu_selected(S, row) ==
    update_displays(clear_transformation_state([S EXCEPT !.win.current_hdu_index = row]))

\* The rotation step of apply_transformations for rotation_angle # 0: each
\* channel of a channel-major RGB array on its own, any other array whole.
\* A rotation step without the per-channel branch: every array whole.
rotate_step_whole(data, angle) == ndimage_rotate(data, angle)

rotate_step(data, angle) ==
    IF is_rgb(data)
    THEN Stack3(ndimage_rotate(Channel(data, 0), angle),
                ndimage_rotate(Channel(data, 1), angle),
                ndimage_rotate(Channel(data, 2), angle))
    ELSE ndimage_rotate(data, angle)

\* Whether the rotation step raises: ndimage.rotate raises ValueError on an
\* input of fewer than 2 dimensions.
rotation_raises(data) == ~is_rgb(data) /\ ndim(data) < 2

\* np.clip(data, info.min, info.max).astype(original_dtype) when the rotated
\* array's dtype differs from the original one.
\* A cast back to the original type that wraps around instead of clipping.
preserve_dtype_wrapping(data, original_dtype) ==
    IF data.dtype # original_dtype
    THEN IF original_dtype = "int"
         THEN [data EXCEPT !.dtype = original_dtype,
                           !.v = [k \in 1..Len(data.v) |->
                                    ((data.v[k] - TypeMin) % (TypeMax - TypeMin + 1)) + TypeMin]]
         ELSE [data EXCEPT !.dtype = original_dtype]
    ELSE data

preserve_dtype(data, original_dtype) ==
    IF data.dtype # original_dtype
    THEN IF original_dtype = "int"
         THEN [data EXCEPT !.dtype = original_dtype,
                           !.v = [k \in 1..Len(data.v) |-> clamp(data.v[k], TypeMin, TypeMax)]]
         ELSE [data EXCEPT !.dtype = original_dtype]
    ELSE data

\* The array apply_transformations derives from the canonical one when no
\* step raises: rotation, then the horizontal flip, then the vertical flip.
transformed(data, angle, fh, fv) ==
    LET rotated == IF angle # 0
                   THEN preserve_dtype(rotate_step(data, angle), data.dtype)
                   ELSE data
        flipped == IF fh THEN flip_last(rotated) ELSE rotated
    IN  IF fv THEN flip_second_last(flipped) ELSE flipped

\* The array the transformations start from: a copy of original_data, or
\* on the first time the HDU's array.
transformation_source(S) ==
    IF S.win.original_data # NoArray THEN copy(S.win.original_data)
    ELSE get_data(S.fm, S.win.current_hdu_index)

\* A display update that keeps the limits set_data computes for the new array.
redisplay_rescaled(S, data) ==
    LET e1 == set_data([S.eng EXCEPT !.current_data = data], data)
    IN  [S EXCEPT !.eng = e1,
                  !.hist = update_histogram(S.hist, data, e1.vmin, e1.vmax)]

\* The display update that ends apply_transformations: the new array with
\* the scaling limits from before it.
redisplay(S, data) ==
    LET old_vmin == S.eng.vmin
        old_vmax == S.eng.vmax
        e1 == set_data([S.eng EXCEPT !.current_data = data], data)
        e2 == IF old_vmin # None /\ old_vmax # None
              THEN update_display([e1 EXCEPT !.vmin = old_vmin, !.vmax = old_vmax])
              ELSE e1
    IN  [S EXCEPT !.eng = e2,
                  !.hist = update_histogram(S.hist, data, e2.vmin, e2.vmax)]

\* apply_transformations: the state it leaves and how it ended: "none" (no
\* array to transform), "rotation_error" (caught, reported on the status
\* bar), "unhandled" (np.flip raised) or "applied".
apply_transformations(S) ==
    IF S.eng.current_data = NoArray \/ transformation_source(S) = NoArray
    THEN [S |-> S, outcome |-> "none"]
    ELSE LET data == transformation_source(S)
             S1 == [S EXCEPT !.win.original_data = copy(data)]
         IN  IF S1.win.rotation_angle # 0 /\ rotation_raises(data)
             THEN [S |-> showMessage(S1, "rotation_error"), outcome |-> "rotation_error"]
             ELSE IF S1.win.flip_vertical /\ ndim(data) < 2
             THEN [S |-> [S1 EXCEPT !.ui.unhandled = TRUE], outcome |-> "unhandled"]
             ELSE [S |-> redisplay(S1, transformed(data, S1.win.rotation_angle,
                                                   S1.win.flip_horizontal,
                                                   S1.win.flip_vertical)),
                   outcome |-> "applied"]

\* The message a transformation handler shows after apply_transformations
\* returns; an exception that left apply_transformations skips it.
after_transformations(r, msg) ==
    IF r.outcome = "unhandled" THEN r ELSE [r EXCEPT !.S = showMessage(r.S, msg)]

\* A rotation that adds the angle to the current one.
rotate_image_cumulative(S, angle) ==
    IF S.eng.current_data = NoArray THEN [S |-> S, outcome |-> "none"]
    ELSE after_transformations(
             apply_transformations(
                 [S EXCEPT !.win.rotation_angle = (S.win.rotation_angle + angle) % 360]),
             "rotated")

\* A rotation that stores the requested angle without reducing it.
rotate_image_unreduced(S, angle) ==
    IF S.eng.current_data = NoArray THEN [S |-> S, outcome |-> "none"]
    ELSE after_transformations(
             apply_transformations(
                 [S EXCEPT !.win.rotation_angle = angle]),
             "rotated")

rotate_image(S, angle) ==
    IF S.eng.current_data = NoArray THEN [S |-> S, outcome |-> "none"]
    ELSE after_transformations(
             apply_transformations(
                 [S EXCEPT !.win.rotation_angle = angle % 360]),
             "rotated")

\* rotate_custom with the dialog accepted at the given angle.
rotate_custom(S, angle) ==
    IF S.eng.current_data = NoArray
    THEN [S |-> showMessage(S, "no_image_loaded"), outcome |-> "none"]
    ELSE IF angle # 0 THEN rotate_image(S, angle)
    ELSE [S |-> S, outcome |-> "none"]

flip_horizontal_image(S) ==
    IF S.eng.current_data = NoArray THEN [S |-> S, outcome |-> "none"]
    ELSE after_transformations(
             apply_transformations(
                 [S EXCEPT !.win.flip_horizontal = ~S.win.flip_horizontal]),
             "horizontal_flip")

flip_vertical_image(S) ==
    IF S.eng.current_data = NoArray THEN [S |-> S, outcome |-> "none"]
    ELSE after_transformations(
             apply_transformations(
                 [S EXCEPT !.win.flip_vertical = ~S.win.flip_vertical]),
             "vertical_flip")

reset_transformations(S) ==
    IF S.eng.current_data = NoArray THEN [S |-> S, outcome |-> "none"]
    ELSE after_transformations(
             apply_transformations(
                 [S EXCEPT !.win.rotation_angle = 0, !.win.flip_horizontal = FALSE,
                           !.win.flip_vertical = FALSE, !.win.original_data = NoArray]),
             "transformations_reset")

\* A timer callback that also redraws the displays of the selected HDU.
update_status_animation_refreshing(S) ==
    update_displays(
        [S EXCEPT !.ui.status_pulse = (S.ui.status_pulse + 1) % 3,
                  !.ui.status = IF S.fm.filepath # "None" THEN "file_loaded"
                                ELSE "ready_pulse"])

\* MainWindow.update_status_animation, the callback of status_timer: the
\* message is "File loaded: <path>" or "Ready" followed by status_pulse
\* dots.
update_status_animation(S) ==
    LET pulse == (S.ui.status_pulse + 1) % 3
        S1 == [S EXCEPT !.ui.status_pulse = pulse]
    IN  IF S1.fm.filepath # "None" THEN showMessage(S1, "file_loaded")
        ELSE showMessage(S1, IF pulse = 0 THEN "ready_0"
                             ELSE IF pulse = 1 THEN "ready_1" ELSE "ready_2")

\* ---------------------------------------------------------------- inputs

\* The angles of the Rotate menu.
MenuAngles == {90, 180, 270}

\* The angles entered in the custom rotation dialog.
CustomAngles == {AngleMinimum, -90, 0, AngleMaximum}

\* The positions the user drags the sliders to.
UserMinPositions == {1000}

UserMaxPositions == {500}

\* The modes the user picks in scaling_combo.
UserModes == {"linear", "log"}

\* ----------------------------------------------------------------- state

\* fm, eng, hist, win, ui: the program's state (see MainWindow above).
\* replayed is a history variable: TRUE while, since an HDU with an image
\* array was loaded, no rotation has raised, no grayscale conversion was
\* made and no open has failed.
VARIABLES fm, eng, hist, win, ui, replayed

vars == <<fm, eng, hist, win, ui, replayed>>

State == [fm |-> fm, eng |-> eng, hist |-> hist, win |-> win, ui |-> ui]

Becomes(S) ==
    /\ fm' = S.fm
    /\ eng' = S.eng
    /\ hist' = S.hist
    /\ win' = S.win
    /\ ui' = S.ui

\* The array of the selected HDU is one the engine displays as an image.
image_selected(S) ==
    prepare_data_for_display(get_data(S.fm, S.win.current_hdu_index)) # NoArray

\* The event loop takes the next event only while no handler has let an
\* exception escape.
Running == ~ui.unhandled

Init ==
    /\ fm = MainWindow_init.fm
    /\ eng = MainWindow_init.eng
    /\ hist = MainWindow_init.hist
    /\ win = MainWindow_init.win
    /\ ui = MainWindow_init.ui
    /\ replayed = FALSE

OpenFileStep(f) ==
    /\ Running
    /\ Becomes(open_file(State, f))
    /\ replayed' = (fits_open(f) = "ok" /\ image_selected(open_file(State, f)))

OpenFile == \E f \in Files : OpenFileStep(f)

SelectHDUStep(row) ==
    /\ Running
    /\ row < ui.hdu_list
    /\ Becomes(on_hdu_selected(State, row))
    /\ replayed' = image_selected(on_hdu_selected(State, row))

SelectHDU == \E row \in 0..(ui.hdu_list - 1) : SelectHDUStep(row)

RotateStep(angle) ==
    LET r == rotate_image(State, angle)
    IN  /\ Running
        /\ Becomes(r.S)
        /\ replayed' = (replayed /\ r.outcome # "rotation_error")

Rotate == \E angle \in MenuAngles : RotateStep(angle)

RotateCustomStep(angle) ==
    LET r == rotate_custom(State, angle)
    IN  /\ Running
        /\ Becomes(r.S)
        /\ replayed' = (replayed /\ r.outcome # "rotation_error")

RotateCustom == \E angle \in CustomAngles : RotateCustomStep(angle)

FlipHorizontal ==
    /\ Running
    /\ Becomes(flip_horizontal_image(State).S)
    /\ UNCHANGED replayed

FlipVertical ==
    /\ Running
    /\ Becomes(flip_vertical_image(State).S)
    /\ UNCHANGED replayed

ResetTransformations ==
    /\ Running
    /\ Becomes(reset_transformations(State).S)
    /\ UNCHANGED replayed

MinSlider ==
    \E value \in UserMinPositions :
        /\ Running
        /\ value # ui.min_slider
        /\ Becomes(min_slider_setValue(State, value))
        /\ UNCHANGED replayed

MaxSlider ==
    \E value \in UserMaxPositions :
        /\ Running
        /\ value # ui.max_slider
        /\ Becomes(max_slider_setValue(State, value))
        /\ UNCHANGED replayed

AutoScale ==
    /\ Running
    /\ Becomes(on_auto_scale(State))
    /\ UNCHANGED replayed

ResetView ==
    /\ Running
    /\ Becomes(on_reset_colormap(State))
    /\ UNCHANGED replayed

RgbToGrayscale ==
    /\ Running
    /\ Becomes(on_rgb_to_grayscale(State))
    /\ replayed' = (replayed /\ ~(eng.current_data # NoArray /\ is_rgb(eng.current_data)))

ScalingMode ==
    \E mode \in UserModes :
        /\ Running
        /\ mode # eng.scaling_mode
        /\ Becomes(on_scaling_mode_changed(State, mode))
        /\ UNCHANGED replayed

Next ==
    \/ OpenFile
    \/ SelectHDU
    \/ Rotate
    \/ RotateCustom
    \/ FlipHorizontal
    \/ FlipVertical
    \/ ResetTransformations
    \/ MinSlider
    \/ MaxSlider
    \/ AutoScale
    \/ ResetView
    \/ RgbToGrayscale

Spec == Init /\ [][Next]_vars

\* The same program with the scaling combo box in use as well.
NextModes == Next \/ ScalingMode

SpecModes == Init /\ [][NextModes]_vars

\* ------------------------------------------------------------ properties

\* The steps that are a rotate, a flip or a reset of the transformations.
TransformStep ==
    Rotate \/ RotateCustom \/ FlipHorizontal \/ FlipVertical \/ ResetTransformations

\* The canonical array of the selected HDU: original_data once captured,
\* the HDU's array before.
canonical(S) ==
    IF S.win.original_data # NoArray THEN S.win.original_data
    ELSE get_data(S.fm, S.win.current_hdu_index)

identity_transform(w) ==
    w.rotation_angle = 0 /\ ~w.flip_horizontal /\ ~w.flip_vertical

\* C1 (as claimed): whenever the display engine holds an array, its bounds
\* satisfy vmin < vmax strictly.
C1_bounds_ordered ==
    eng.current_data # NoArray => eng.vmin[1] < eng.vmax[1]

\* C1: the state the claim excludes: the engine holds the constant array of
\* the largest integer and set_data has stored auto_scale's pair with
\* vmin above vmax.
C1_saturated_reached ==
    /\ eng.current_data = SATURATED
    /\ eng.vmin[1] > eng.vmax[1]

\* C2 (as claimed): after an HDU with an image array is loaded, and while
\* only rotations that raise nothing, flips, resets of the transformations
\* and Reset View follow, the array the engine holds is the canonical array
\* rotated by rotation_angle, then flipped horizontally if flip_horizontal,
\* then flipped vertically if flip_vertical.
C2_display_is_replay ==
    (replayed /\ Running) =>
        eng.current_data = transformed(canonical(State), win.rotation_angle,
                                       win.flip_horizontal, win.flip_vertical)

\* C2: the state the claim excludes: Reset View has put the unrotated RGB
\* array back while rotation_angle still holds the angle of the rotation.
C2_reset_view_unrotated ==
    /\ replayed
    /\ win.rotation_angle # 0
    /\ eng.current_data = win.original_rgb_data
    /\ eng.current_data # transformed(canonical(State), win.rotation_angle,
                                      win.flip_horizontal, win.flip_vertical)

\* C3 (as claimed): a rotate, a flip or a reset of the transformations
\* leaves a captured original_data with the contents it had before.
C3_canonical_kept ==
    [][(TransformStep /\ win.original_data # NoArray)
           => win'.original_data = win.original_data]_vars

\* C3: the state the claim excludes: the transformations were reset with
\* no file open, so the discarded original_data was not captured again
\* while the engine still holds the array derived from it.
C3_canonical_lost ==
    /\ fm.hdulist = "None"
    /\ eng.current_data # NoArray
    /\ win.original_data = NoArray
    /\ ui.status = "confirmation"
    /\ identity_transform(win)
    /\ eng.current_data = Rot90(IMG)

\* A step that opens a file or selects an HDU, and leaves another HDU
\* selected than the one selected before.
SwitchStep ==
    /\ \/ \E f \in GoodFiles : OpenFileStep(f)
       \/ \E row \in 0..(ui.hdu_list - 1) : SelectHDUStep(row)
    /\ <<fm'.hdulist, win'.current_hdu_index>> # <<fm.hdulist, win.current_hdu_index>>

\* The engine holds an array derived from the selected HDU's array.
shows_selected_unit ==
    /\ eng.current_data # NoArray
    /\ get_data(fm, win.current_hdu_index) # NoArray
    /\ eng.current_data = transformed(get_data(fm, win.current_hdu_index),
                                      win.rotation_angle, win.flip_horizontal,
                                      win.flip_vertical)

\* C4 (as claimed): once a file is opened or another HDU selected, whatever
\* the new HDU holds, the engine's array and its (vmin, vmax) are no longer
\* those of the HDU selected before, original_data is not that HDU's array,
\* and the transformation state is the identity.
C4_nothing_survives ==
    [][(SwitchStep /\ shows_selected_unit)
           => /\ eng'.current_data # eng.current_data
              /\ <<eng'.vmin, eng'.vmax>> # <<eng.vmin, eng.vmax>>
              /\ win'.original_data # get_data(fm, win.current_hdu_index)
              /\ identity_transform(win')]_vars

\* C4: the state the claim excludes: the rank-1 HDU is selected and the
\* engine still holds the array and the bounds of the image HDU.
C4_previous_survives ==
    /\ fm.hdulist = "a.fits"
    /\ win.current_hdu_index = 1
    /\ get_data(fm, win.current_hdu_index) = SPECTRUM
    /\ eng.current_data = IMG
    /\ eng.axes = "spectrum_text"

\* C5: from every state, a successful open_file and every on_hdu_selected
\* leave rotation_angle 0, both flip flags false and original_data
\* discarded, whatever they were before.
C5_switch_resets ==
    Running =>
        /\ \A f \in Files :
               FM_open_file(fm, f).ret =>
                   LET T == open_file(State, f)
                   IN  identity_transform(T.win) /\ T.win.original_data = NoArray
        /\ \A row \in 0..(ui.hdu_list - 1) :
               LET T == on_hdu_selected(State, row)
               IN  identity_transform(T.win) /\ T.win.original_data = NoArray

\* C5: an image is shown rotated and flipped from a captured original_data,
\* and opening a file or selecting an HDU from there resets all of it.
C5_reset_from_transformed ==
    /\ Running
    /\ win.rotation_angle # 0 /\ win.flip_horizontal /\ win.flip_vertical
    /\ win.original_data # NoArray
    /\ identity_transform(open_file(State, "b.fits").win)
    /\ open_file(State, "b.fits").ui.status = "loaded"
    /\ ui.hdu_list > 1
    /\ on_hdu_selected(State, 1).win.original_data = NoArray
    /\ on_hdu_selected(State, 1).win.current_hdu_index = 1

\* The angles a rotation is requested with.
RequestedAngles == MenuAngles \cup (CustomAngles \ {0})

\* C6: from every state, rotate_image(a) followed by rotate_image(b) leaves
\* the rotation angle and the displayed array that rotate_image(b) alone
\* leaves.
C6_rotation_absolute ==
    Running =>
        \A a \in MenuAngles, b \in RequestedAngles :
            LET first == rotate_image(State, a)
                twice == rotate_image(first.S, b).S
                once == rotate_image(State, b).S
            IN  first.outcome # "unhandled" =>
                    /\ twice.win.rotation_angle = once.win.rotation_angle
                    /\ twice.eng.current_data = once.eng.current_data

\* C6: an image is shown, rotating it by 90 changes the displayed array, and
\* rotating by 180 after that shows the canonical array rotated by 180, not
\* by 270.
C6_second_angle_replaces ==
    /\ Running
    /\ win.original_data = IMG
    /\ rotate_image(State, 90).outcome = "applied"
    /\ rotate_image(State, 90).S.eng.current_data # eng.current_data
    /\ rotate_image(rotate_image(State, 90).S, 180).S.win.rotation_angle = 180
    /\ rotate_image(rotate_image(State, 90).S, 180).S.eng.current_data
           = transformed(IMG, 180, win.flip_horizontal, win.flip_vertical)
    /\ transformed(IMG, 180, win.flip_horizontal, win.flip_vertical)
           # transformed(IMG, 270, win.flip_horizontal, win.flip_vertical)

\* The states the rotate, flip and reset handlers leave from state S.
transform_results(S) ==
    {rotate_image(S, angle).S : angle \in RequestedAngles}
        \cup {flip_horizontal_image(S).S, flip_vertical_image(S).S,
              reset_transformations(S).S}

\* C7: from every state, rotate_image, flip_horizontal_image,
\* flip_vertical_image and reset_transformations leave the engine's vmin and
\* vmax exactly as they were.
C7_bounds_kept ==
    Running =>
        \A T \in transform_results(State) :
            T.eng.vmin = eng.vmin /\ T.eng.vmax = eng.vmax

\* C7: the engine's bounds were edited by hand, so they are not the ones
\* auto_scale gives for the displayed array, and a rotation and a flip that
\* change the displayed array keep them.
C7_edited_bounds_survive ==
    /\ Running
    /\ eng.current_data # NoArray
    /\ <<eng.vmin[1], eng.vmax[1]>> # auto_scale(eng)
    /\ rotate_image(State, 90).outcome = "applied"
    /\ rotate_image(State, 90).S.eng.current_data # eng.current_data
    /\ rotate_image(State, 90).S.eng.vmin = eng.vmin
    /\ flip_horizontal_image(State).S.eng.current_data # eng.current_data
    /\ flip_horizontal_image(State).S.eng.vmax = eng.vmax

\* C8 (as claimed): when the rotation step of a rotate request raises, the
\* request leaves the displayed array, vmin, vmax and both flip flags as
\* they were, rotation_angle at the requested angle, and the status bar
\* showing the rotation error.
C8_rotation_error_reported ==
    Running =>
        \A angle \in RequestedAngles :
            LET r == rotate_image(State, angle)
            IN  r.outcome = "rotation_error" =>
                    /\ r.S.eng.current_data = eng.current_data
                    /\ r.S.eng.vmin = eng.vmin /\ r.S.eng.vmax = eng.vmax
                    /\ r.S.win.flip_horizontal = win.flip_horizontal
                    /\ r.S.win.flip_vertical = win.flip_vertical
                    /\ r.S.win.rotation_angle = angle % 360
                    /\ r.S.ui.status = "rotation_error"

\* C8: the state the claim excludes: the rotation of the rank-1 array
\* raised, and the status bar shows the confirmation of a rotation.
C8_error_overwritten ==
    /\ win.original_data = SPECTRUM
    /\ win.rotation_angle = 90
    /\ ~win.flip_horizontal /\ ~win.flip_vertical
    /\ eng.current_data = IMG
    /\ ui.status = "confirmation"

\* C9 (as claimed): every operation completes without an unhandled error.
C9_no_unhandled_error ==
    ~ui.unhandled

\* C9: the state the claim excludes: the vertical flip of the rank-1 array
\* raised out of the handler, with flip_vertical already changed.
C9_flip_raised ==
    /\ ui.unhandled
    /\ win.original_data = SPECTRUM
    /\ win.flip_vertical
    /\ win.rotation_angle = 0

\* C10: from every state, an open_file that fails shows the failure on the
\* status bar and leaves the displayed array, vmin, vmax, the scaling mode,
\* the transformation state, original_data and current_hdu_index as they
\* were.
C10_failed_open_keeps_state ==
    Running =>
        \A f \in Files :
            ~FM_open_file(fm, f).ret =>
                LET T == open_file(State, f)
                IN  /\ T.ui.status = "failed_to_open"
                    /\ T.eng.current_data = eng.current_data
                    /\ T.eng.vmin = eng.vmin /\ T.eng.vmax = eng.vmax
                    /\ T.eng.scaling_mode = eng.scaling_mode
                    /\ T.win.rotation_angle = win.rotation_angle
                    /\ T.win.flip_horizontal = win.flip_horizontal
                    /\ T.win.flip_vertical = win.flip_vertical
                    /\ T.win.original_data = win.original_data
                    /\ T.win.current_hdu_index = win.current_hdu_index

\* C10: a file is open with its second HDU selected, the image is shown
\* rotated and flipped in linear mode, and opening a file that cannot be
\* read closes the open file and reports the failure.
C10_failure_after_work ==
    /\ Running
    /\ fm.hdulist = "b.fits"
    /\ win.current_hdu_index = 2
    /\ win.rotation_angle = 90 /\ win.flip_horizontal
    /\ win.original_data # NoArray
    /\ eng.scaling_mode = "linear"
    /\ open_file(State, "corrupt.fits").fm.hdulist = "None"
    /\ open_file(State, "corrupt.fits").ui.status = "failed_to_open"

\* ------------------------------------------- the display engine on its own

\* The element values of the arrays given to the engine.
IntValues == {TypeMin, 0, 3, TypeMax}

FloatValues == {NaN, 0 - 2, 0, 3}

\* The arrays given to set_data: one row of two elements.
EngineArrays ==
    {Array(<<1, 2>>, "int", <<x, y>>) : x \in IntValues, y \in IntValues}
        \cup {Array(<<1, 2>>, "float", <<x, y>>) : x \in FloatValues, y \in FloatValues}

\* The limits given to set_scaling_limits: 0, 1 and 10.
EngineLimits == {0, Scale, 10 * Scale}

\* The names given to set_scaling_mode.
EngineModes == Modes \cup {"cubic"}

EngineSetData ==
    \E data \in EngineArrays :
        /\ eng' = set_data(eng, data)
        /\ UNCHANGED <<fm, hist, win, ui, replayed>>

EngineSetScalingLimits ==
    \E vmin \in EngineLimits, vmax \in EngineLimits :
        /\ eng' = set_scaling_limits(eng, vmin, vmax)
        /\ UNCHANGED <<fm, hist, win, ui, replayed>>

EngineSetScalingMode ==
    \E mode \in EngineModes :
        /\ eng' = set_scaling_mode(eng, mode)
        /\ UNCHANGED <<fm, hist, win, ui, replayed>>

NextEngine == EngineSetData \/ EngineSetScalingLimits \/ EngineSetScalingMode

SpecEngine == Init /\ [][NextEngine]_vars

\* C11: from every state of the engine, set_scaling_limits(vmin, vmax) with
\* vmin >= vmax leaves every field of the engine as it was, and with
\* vmin < vmax it leaves vmin and vmax at exactly the given values.
C11_limits_rejected_or_set ==
    \A vmin \in EngineLimits, vmax \in EngineLimits :
        LET e == set_scaling_limits(eng, vmin, vmax)
        IN  IF vmin >= vmax THEN e = eng
            ELSE e.vmin = Some(vmin) /\ e.vmax = Some(vmax)

\* C11: the engine holds an array with bounds other than (10, 10) and
\* (0, 10); set_scaling_limits(10, 10) changes nothing and
\* set_scaling_limits(0, 10) sets both bounds.
C11_equal_limits_rejected ==
    /\ eng.current_data # NoArray
    /\ eng.vmin # Some(10 * Scale)
    /\ eng.vmin[1] < eng.vmax[1]
    /\ set_scaling_limits(eng, 10 * Scale, 10 * Scale) = eng
    /\ set_scaling_limits(eng, 0, 10 * Scale).vmax = Some(10 * Scale)
    /\ set_scaling_limits(eng, 0, 10 * Scale) # eng

\* The finite values of the array the engine holds.
finite_values(e) == {e.current_data.v[k] : k \in 1..Len(e.current_data.v)} \ {NaN}

\* C12 (as claimed): for every array with at least one finite value,
\* auto_scale returns a pair with vmin < vmax.
C12_auto_scale_ordered ==
    (eng.current_data # NoArray /\ finite_values(eng) # {})
        => auto_scale(eng)[1] < auto_scale(eng)[2]

\* C12: the state the claim excludes: the engine holds the constant array
\* of the largest integer of its type, and auto_scale returns vmin above
\* vmax.
C12_wrapped_pair ==
    /\ eng.current_data = Array(<<1, 2>>, "int", <<TypeMax, TypeMax>>)
    /\ auto_scale(eng) = <<Scale * TypeMax, Scale * TypeMin>>

\* C13 (as claimed): for an array whose finite values all equal one
\* constant c, auto_scale returns exactly (c, c + 1); with no finite value,
\* or no array, it returns (0, 1).
C13_constant_pair ==
    /\ (eng.current_data = NoArray \/ finite_values(eng) = {})
           => auto_scale(eng) = <<0, Scale>>
    /\ \A c \in IntValues \cup FloatValues :
           (eng.current_data # NoArray /\ finite_values(eng) = {c})
               => auto_scale(eng) = <<Scale * c, Scale * (c + 1)>>

\* C13: the state the claim excludes: a constant integer array for which
\* auto_scale's second value is not the constant plus one.
C13_constant_not_plus_one ==
    /\ eng.current_data # NoArray
    /\ eng.current_data.dtype = "int"
    /\ finite_values(eng) = {TypeMax}
    /\ auto_scale(eng)[1] = Scale * TypeMax
    /\ auto_scale(eng)[2] # Scale * (TypeMax + 1)

\* ---------------------------------------------------------------- scaling
\* _apply_scaling for arrays of finite values.  log10 (on arguments >= 1),
\* sqrt (on arguments >= 0) and arcsinh are strictly increasing, so a value
\* f(x) is kept as f and its argument x (in units of 1/Scale), and a value
\* (f(x) - f(lo)) / (f(hi) - f(lo)) as f, x, lo and hi: two values of the
\* same f compare as their arguments do.

raw_value(f, x) == [f |-> f, x |-> x, normalized |-> FALSE, lo |-> x, hi |-> x]

normalized_value(f, x, lo, hi) == [f |-> f, x |-> x, normalized |-> TRUE, lo |-> lo, hi |-> hi]

\* np.clip(x, lo, hi) = minimum(maximum(x, lo), hi).
np_clip(x, lo, hi) ==
    LET m == IF x < lo THEN lo ELSE x
    IN  IF m > hi THEN hi ELSE m

seq_min(s) == CHOOSE x \in {s[k] : k \in 1..Len(s)} : \A k \in 1..Len(s) : x <= s[k]

seq_max(s) == CHOOSE x \in {s[k] : k \in 1..Len(s)} : \A k \in 1..Len(s) : x >= s[k]

abs(x) == IF x < 0 THEN 0 - x ELSE x

\* scaled normalised by its own minimum and maximum, or as it is when all
\* its values are equal.
min_max_normalized(f, args) ==
    IF seq_max(args) > seq_min(args)
    THEN [k \in 1..Len(args) |-> normalized_value(f, args[k], seq_min(args), seq_max(args))]
    ELSE [k \in 1..Len(args) |-> raw_value(f, args[k])]

\* A scaling whose last branch hands back the clipped values as they are.
apply_scaling_to_channel_unscaled_default(values, vmin, vmax, mode) ==
    LET clipped == [k \in 1..Len(values) |-> np_clip(Scale * values[k], vmin, vmax)]
    IN  IF mode = "linear"
        THEN IF vmax > vmin
             THEN [k \in 1..Len(values) |-> normalized_value("linear", clipped[k], vmin, vmax)]
             ELSE [k \in 1..Len(values) |-> raw_value("linear", clipped[k])]
        ELSE IF mode = "log"
        THEN min_max_normalized("log10",
                 [k \in 1..Len(values) |-> clipped[k] - vmin + Scale])
        ELSE IF mode = "sqrt"
        THEN min_max_normalized("sqrt",
                 [k \in 1..Len(values) |-> abs(clipped[k] - vmin)])
        ELSE IF mode = "asinh"
        THEN min_max_normalized("arcsinh", clipped)
        ELSE [k \in 1..Len(values) |-> raw_value("linear", clipped[k])]

\* _apply_scaling_to_channel on the elements of one channel: a branch for
\* each of the four modes and a last one for any other value of the mode.
apply_scaling_to_channel(values, vmin, vmax, mode) ==
    LET clipped == [k \in 1..Len(values) |-> np_clip(Scale * values[k], vmin, vmax)]
    IN  IF mode = "linear"
        THEN IF vmax > vmin
             THEN [k \in 1..Len(values) |-> normalized_value("linear", clipped[k], vmin, vmax)]
             ELSE [k \in 1..Len(values) |-> raw_value("linear", clipped[k])]
        ELSE IF mode = "log"
        THEN min_max_normalized("log10",
                 [k \in 1..Len(values) |-> clipped[k] - vmin + Scale])
        ELSE IF mode = "sqrt"
        THEN min_max_normalized("sqrt",
                 [k \in 1..Len(values) |-> abs(clipped[k] - vmin)])
        ELSE IF mode = "asinh"
        THEN min_max_normalized("arcsinh", clipped)
        ELSE IF vmax > vmin
             THEN [k \in 1..Len(values) |-> normalized_value("linear", clipped[k], vmin, vmax)]
             ELSE [k \in 1..Len(values) |-> raw_value("linear", clipped[k])]

\* _apply_scaling on the array update_display prepared: each channel of an
\* (H, W, 3) array on its own, any other array whole.
apply_scaling(e) ==
    LET data == prepare_data_for_display(e.current_data)
    IN  IF ndim(data) = 3 /\ data.shape[3] = 3
        THEN LET n == Len(data.v) \div 3
                 channel(i) == apply_scaling_to_channel(
                                   [k \in 1..n |-> data.v[3 * (k - 1) + i + 1]],
                                   e.vmin[1], e.vmax[1], e.scaling_mode)
             IN  [k \in 1..Len(data.v) |-> channel((k - 1) % 3)[((k - 1) \div 3) + 1]]
        ELSE apply_scaling_to_channel(data.v, e.vmin[1], e.vmax[1], e.scaling_mode)

\* The largest argument, in units of 1/Scale, whose arcsinh is at most 1:
\* sinh(1) = 1.17520...
ArcsinhOne == 2350

\* The value lies in [0, 1].
in_unit_interval(o) ==
    IF o.normalized THEN o.lo <= o.x /\ o.x <= o.hi
    ELSE IF o.f = "log10" THEN Scale <= o.x /\ o.x <= 10 * Scale
    ELSE IF o.f = "sqrt" THEN o.x <= Scale
    ELSE IF o.f = "arcsinh" THEN 0 <= o.x /\ o.x <= ArcsinhOne
    ELSE 0 <= o.x /\ o.x <= Scale

\* The engine holds an array of finite values that update_display renders,
\* with vmin < vmax.
scalable(e) ==
    /\ e.current_data # NoArray
    /\ prepare_data_for_display(e.current_data) # NoArray
    /\ \A k \in 1..Len(e.current_data.v) : IsFinite(e.current_data.v[k])
    /\ e.vmin[1] < e.vmax[1]

\* C14 (as claimed): for every array of finite values, every vmin < vmax
\* and every scaling mode, every element of the scaling output lies in
\* [0, 1], also when the clipped array is constant.
C14_scaled_in_unit_interval ==
    scalable(eng) =>
        \A k \in 1..Len(apply_scaling(eng)) : in_unit_interval(apply_scaling(eng)[k])

\* C14: the state the claim excludes: in sqrt mode with bounds (0, 10) every
\* element is clipped to the same value, and the output is its square root,
\* not normalised.
C14_constant_not_normalized ==
    /\ scalable(eng)
    /\ eng.scaling_mode = "sqrt"
    /\ eng.current_data.v = <<3, 3>>
    /\ eng.vmin = Some(0) /\ eng.vmax = Some(10 * Scale)
    /\ apply_scaling(eng)[1] = raw_value("sqrt", 3 * Scale)
    /\ ~in_unit_interval(apply_scaling(eng)[1])

\* An image is loaded: the engine holds an array and the transformations
\* have an array of rank 2 or more to start from.
image_loaded(S) ==
    /\ S.eng.current_data # NoArray
    /\ transformation_source(S) # NoArray
    /\ ndim(transformation_source(S)) >= 2

\* C15 (as claimed): on a loaded image, from any transformation state, two
\* horizontal flips leave flip_horizontal and the displayed array as they
\* were before the first, and so do two vertical flips; a flip changes
\* neither the other flag nor the rotation angle.
C15_flips_are_involutions ==
    (Running /\ image_loaded(State)) =>
        LET h1 == flip_horizontal_image(State).S
            h2 == flip_horizontal_image(h1).S
            v1 == flip_vertical_image(State).S
            v2 == flip_vertical_image(v1).S
        IN  /\ h1.win.flip_horizontal # win.flip_horizontal
            /\ h1.win.flip_vertical = win.flip_vertical
            /\ h1.win.rotation_angle = win.rotation_angle
            /\ v1.win.flip_vertical # win.flip_vertical
            /\ v1.win.flip_horizontal = win.flip_horizontal
            /\ v1.win.rotation_angle = win.rotation_angle
            /\ h2.win.flip_horizontal = win.flip_horizontal
            /\ h2.eng.current_data = eng.current_data
            /\ v2.win.flip_vertical = win.flip_vertical
            /\ v2.eng.current_data = eng.current_data

\* C15 failing state: an image is loaded and two horizontal flips leave the
\* engine with another array than the one displayed before them.
C15_double_flip_changes_display ==
    /\ Running
    /\ image_loaded(State)
    /\ flip_horizontal_image(flip_horizontal_image(State).S).S.eng.current_data
           # eng.current_data

\* The full turns a rotation can be asked for.
FullTurns == {AngleMinimum, AngleMaximum}

\* C16: the identity transformation returns the canonical array. A rotation
\* asked for at 360 or -360 degrees is stored as angle 0; when it, or Reset
\* Transformations, has applied the transformations with angle 0 and no
\* flip, the array given to the engine equals the canonical array in shape,
\* element type and every element, so the image displayed is the reducer's
\* output on the canonical array.
C16_identity_returns_canonical ==
    Running =>
        /\ \A angle \in FullTurns :
               LET r == rotate_custom(State, angle)
               IN  /\ eng.current_data # NoArray => r.S.win.rotation_angle = 0
                   /\ (r.outcome = "applied" /\ identity_transform(r.S.win)) =>
                          /\ r.S.eng.current_data = canonical(r.S)
                          /\ canonical(r.S) = canonical(State)
                          /\ prepare_data_for_display(r.S.eng.current_data)
                                 = prepare_data_for_display(canonical(State))
                          /\ r.S.eng.axes = "image"
                                 <=> prepare_data_for_display(canonical(State)) # NoArray
        /\ LET r == reset_transformations(State)
           IN  r.outcome = "applied" =>
                   /\ identity_transform(r.S.win)
                   /\ r.S.eng.current_data = canonical(r.S)
                   /\ canonical(r.S) = get_data(fm, win.current_hdu_index)

\* C16 witness: an image displayed rotated by 90 degrees with no flip, on
\* which a rotation by 360 degrees applies and brings back the canonical
\* array in place of the rotated one.
C16_full_turn_restores ==
    /\ Running
    /\ win.rotation_angle = 90
    /\ ~win.flip_horizontal /\ ~win.flip_vertical
    /\ LET r == rotate_custom(State, AngleMaximum)
       IN  /\ r.outcome = "applied"
           /\ r.S.eng.current_data = canonical(State)
           /\ r.S.eng.current_data # eng.current_data

\* ------------------------------------------------- the reducer on its own

\* The largest length of an axis of the arrays given to the reducer.
MaxDim == 3

\* The largest number of elements of the arrays given to the reducer.
MaxSize == 36

\* The shapes of rank 2, 3 and 4 with every axis of length 1..MaxDim and at
\* most MaxSize elements.
ReducerShapes ==
    {shape \in {<<h, w>> : h, w \in 1..MaxDim}
                   \cup {<<a, h, w>> : a, h, w \in 1..MaxDim}
                   \cup {<<a, b, h, w>> : a, b, h, w \in 1..MaxDim} :
         Prod(shape) <= MaxSize}

\* The array of a shape whose elements are 1, 2, 3, ... in row-major order,
\* so that every element is told from every other.
Iota(shape) == Array(shape, "float", [k \in 1..Prod(shape) |-> k])

ReducerArrays == {Iota(shape) : shape \in ReducerShapes}

\* data[idx] for a full index (0-based, one entry per axis), row-major.
RECURSIVE Offset(_, _, _)
Offset(shape, idx, acc) ==
    IF shape = <<>> THEN acc
    ELSE Offset(Tail(shape), Tail(idx), acc * Head(shape) + Head(idx))

At(a, idx) == a.v[Offset(a.shape, idx, 0) + 1]

ReducerSetData ==
    /\ \E data \in ReducerArrays : eng' = set_data(eng, data)
    /\ UNCHANGED <<fm, hist, win, ui, replayed>>

NextReducer == ReducerSetData

SpecReducer == Init /\ [][NextReducer]_vars

\* C17: for an array of rank 2 or more the reducer returns the array itself
\* at rank 2; the channel-last (H, W, 3) transpose at rank 3 with a leading
\* axis of length 3; and otherwise the 2D slice over the last two axes taken
\* at index floor(length / 2) of every leading axis. The result has rank 2
\* or the shape (H, W, 3).
C17_reducer_result ==
    (eng.current_data # NoArray /\ ndim(eng.current_data) >= 2) =>
        LET d == eng.current_data
            n == ndim(d)
            H == d.shape[n - 1]
            W == d.shape[n]
            r == prepare_data_for_display(d)
            mid == [i \in 1..(n - 2) |-> d.shape[i] \div 2]
        IN  /\ r # NoArray
            /\ r.dtype = d.dtype
            /\ Len(r.v) = Prod(r.shape)
            /\ ndim(r) = 2 \/ (r.shape = <<H, W, 3>>)
            /\ IF n = 2 THEN r = d
               ELSE IF n = 3 /\ d.shape[1] = 3
               THEN /\ r.shape = <<H, W, 3>>
                    /\ \A h \in 0..(H - 1) : \A w \in 0..(W - 1) : \A c \in 0..2 :
                           At(r, <<h, w, c>>) = At(d, <<c, h, w>>)
               ELSE /\ r.shape = <<H, W>>
                    /\ \A h \in 0..(H - 1) : \A w \in 0..(W - 1) :
                           At(r, <<h, w>>) = At(d, mid \o <<h, w>>)

\* C17 witness: an array of rank 4 whose first axis has length 3 and whose
\* reduction is a 2D slice of more than one element taken away from index 0
\* of both leading axes.
C17_rank4_middle_slice ==
    /\ eng.current_data # NoArray
    /\ ndim(eng.current_data) = 4
    /\ eng.current_data.shape[1] = 3
    /\ eng.current_data.shape[2] = 2
    /\ eng.current_data.shape[4] > 1
    /\ ndim(prepare_data_for_display(eng.current_data)) = 2
    /\ prepare_data_for_display(eng.current_data).v[1] # eng.current_data.v[1]

\* The rows of the HDU list that hold an array of rank 1.
rank1_rows ==
    {row \in 0..(ui.hdu_list - 1) :
        get_data(fm, row) # NoArray /\ ndim(get_data(fm, row)) = 1}

\* C18: the reducer returns no image for an array of rank 1 and the engine
\* renders no image from one; selecting an HDU that holds an array of rank
\* 1 puts the textual summary on the axes, raises nothing and leaves the
\* status bar as it was, so it is not reported as an error.
C18_rank1_described_not_rendered ==
    /\ (eng.current_data # NoArray /\ ndim(eng.current_data) = 1) =>
           /\ prepare_data_for_display(eng.current_data) = NoArray
           /\ update_display(eng).axes = "empty"
           /\ eng.axes # "image"
    /\ Running =>
           \A row \in rank1_rows :
               LET T == on_hdu_selected(State, row)
               IN  /\ prepare_data_for_display(get_data(fm, row)) = NoArray
                   /\ T.eng.axes = "spectrum_text"
                   /\ T.eng.current_data = eng.current_data
                   /\ T.ui.status = ui.status
                   /\ T.ui.unhandled = FALSE

\* C18 witness: the HDU of rank 1 is the selected one, its summary is on
\* the axes and nothing has been raised.
C18_summary_shown ==
    /\ Running
    /\ win.current_hdu_index \in rank1_rows
    /\ eng.axes = "spectrum_text"

\* ------------------------------------- the transformations on their own

\* The element values of the channels of an RGB array.
ChannelValues == {0, 1000}

\* The channel-major RGB arrays of shape (3, 1, 2).
RGBArrays ==
    {Array(<<3, 1, 2>>, "float", <<r1, r2, g1, g2, b1, b2>>) :
        r1, r2, g1, g2, b1, b2 \in ChannelValues}

\* The integer images of shape (1, 2).
IntImages == {Array(<<1, 2>>, "int", <<x, y>>) : x, y \in IntValues}

TransformArrays == RGBArrays \cup IntImages

\* The window that displays the array a with no transformation, a being the
\* array apply_transformations has captured as original_data.
displaying(a) ==
    apply_transformations(
        [MainWindow_init EXCEPT !.eng = set_data(MainWindow_init.eng, a),
                                !.win.original_data = copy(a)]).S

InitTransform ==
    /\ \E a \in TransformArrays :
           /\ fm = displaying(a).fm
           /\ eng = displaying(a).eng
           /\ hist = displaying(a).hist
           /\ win = displaying(a).win
           /\ ui = displaying(a).ui
    /\ replayed = TRUE

NextTransform == Rotate \/ RotateCustom \/ FlipHorizontal \/ FlipVertical

SpecTransform == InitTransform /\ [][NextTransform]_vars

\* C19: for a channel-major RGB canonical array (3, H, W), whatever the
\* rotation angle and the flips, the transformed array is channel-major
\* with a leading axis of length 3 and reduces to a channel-last (H', W', 3)
\* image, and its channel k is the same for every canonical array with the
\* same channel k, whatever the other two channels hold.
C19_channels_independent ==
    (win.original_data # NoArray /\ is_rgb(win.original_data)) =>
        LET a == win.original_data
            out == eng.current_data
        IN  /\ ndim(out) = 3
            /\ out.shape[1] = 3
            /\ Len(out.v) = Prod(out.shape)
            /\ prepare_data_for_display(out).shape = <<out.shape[2], out.shape[3], 3>>
            /\ \A k \in 0..2 :
                   \A b \in RGBArrays :
                       Channel(b, k) = Channel(a, k) =>
                           Channel(transformed(b, win.rotation_angle,
                                               win.flip_horizontal,
                                               win.flip_vertical), k)
                               = Channel(out, k)

\* C19 witness: an RGB array whose three channels differ, displayed rotated
\* by 90 degrees and flipped horizontally, in another shape than the
\* canonical one.
C19_rotated_flipped_rgb ==
    /\ win.original_data # NoArray
    /\ is_rgb(win.original_data)
    /\ Channel(win.original_data, 0) # Channel(win.original_data, 1)
    /\ Channel(win.original_data, 1) # Channel(win.original_data, 2)
    /\ Channel(win.original_data, 0) # Channel(win.original_data, 2)
    /\ win.rotation_angle = 90
    /\ win.flip_horizontal
    /\ eng.current_data.shape = <<3, 2, 1>>

\* The rotated array as a float array with every element moved by d: a
\* rotation result of another element type than the canonical array's.
float_result(d) ==
    LET r == rotate_step(win.original_data, win.rotation_angle)
    IN  [r EXCEPT !.dtype = "float", !.v = [k \in 1..Len(r.v) |-> r.v[k] + d]]

\* C20: after a rotation the array given to the engine has the element
\* type of the canonical array, and with an integer type every element is
\* within [TypeMin, TypeMax]; a rotation result of another type is cast
\* back with every element outside that range clipped to its nearest end.
C20_rotation_keeps_type_and_range ==
    (win.original_data # NoArray /\ win.rotation_angle # 0) =>
        LET a == win.original_data
            out == eng.current_data
        IN  /\ out.dtype = a.dtype
            /\ a.dtype = "int" =>
                   /\ \A k \in 1..Len(out.v) : TypeMin <= out.v[k] /\ out.v[k] <= TypeMax
                   /\ \A d \in {0 - TypeMax, TypeMax} :
                          LET f == float_result(d)
                              c == preserve_dtype(f, a.dtype)
                          IN  /\ c.dtype = "int"
                              /\ c.shape = f.shape
                              /\ \A k \in 1..Len(f.v) :
                                     c.v[k] = IF f.v[k] > TypeMax THEN TypeMax
                                              ELSE IF f.v[k] < TypeMin THEN TypeMin
                                              ELSE f.v[k]

\* C20 witness: an integer image holding both ends of its type's range,
\* displayed rotated, so that a float result moved up or down leaves the
\* range at one end or the other.
C20_rotated_extremes ==
    /\ win.original_data # NoArray
    /\ win.original_data.dtype = "int"
    /\ win.original_data.v = <<TypeMin, TypeMax>>
    /\ win.rotation_angle = 90
    /\ eng.current_data.shape = <<2, 1>>
    /\ \E k \in 1..2 : float_result(TypeMax).v[k] > TypeMax
    /\ \E k \in 1..2 : float_result(0 - TypeMax).v[k] < TypeMin

\* ---------------------------------------------- the histogram on its own

\* The largest number of bins asked of the histogram.
MaxBins == 4

\* bins=100, the default every caller of update_histogram uses.
DefaultBins == 100

BinCounts == (1..MaxBins) \cup {DefaultBins}

\* The arrays given to the histogram: three samples each, finite or not.
HistogramArrays ==
    {Array(<<1, 3>>, "float", <<x, y, z>>) : x, y, z \in FloatValues}

\* A histogram whose outermost edge is open: a sample equal to the largest
\* one falls beyond the last bin.
np_histogram_half_open(s, bins) ==
    LET n == Len(s)
        lo2 == IF s[1] = s[n] THEN 2 * s[1] - 1 ELSE 2 * s[1]
        hi2 == IF s[1] = s[n] THEN 2 * s[n] + 1 ELSE 2 * s[n]
    IN  [b \in 1..bins |->
            Cardinality({k \in 1..n :
                (((2 * s[k] - lo2) * bins) \div (hi2 - lo2)) = b - 1})]

\* counts of np.histogram(s, bins=bins) for the sorted finite samples s: bins
\* of equal width over [min, max], widened to [min - 0.5, max + 0.5] when
\* min = max (edges in halves); every bin is half-open except the last,
\* which holds the samples equal to the right edge as well.
np_histogram(s, bins) ==
    LET n == Len(s)
        lo2 == IF s[1] = s[n] THEN 2 * s[1] - 1 ELSE 2 * s[1]
        hi2 == IF s[1] = s[n] THEN 2 * s[n] + 1 ELSE 2 * s[n]
    IN  [b \in 1..bins |->
            Cardinality({k \in 1..n :
                (IF 2 * s[k] = hi2 THEN bins - 1
                 ELSE ((2 * s[k] - lo2) * bins) \div (hi2 - lo2)) = b - 1})]

\* The bin counts of the bars on the histogram's axes, had the histogram been
\* asked for that number of bins: none after axes.clear() alone.
histogram_counts(h, bins) ==
    IF h.bars = NoArray THEN <<>> ELSE np_histogram(valid_data(h.bars), bins)

RECURSIVE SeqSum(_)
SeqSum(s) == IF s = <<>> THEN 0 ELSE Head(s) + SeqSum(Tail(s))

HistogramUpdate ==
    /\ \E data \in HistogramArrays :
           \E vmin, vmax \in {None, Some(0), Some(Scale)} :
               hist' = update_histogram(hist, data, vmin, vmax)
    /\ UNCHANGED <<fm, eng, win, ui, replayed>>

HistogramScalingLines ==
    /\ \E vmin, vmax \in EngineLimits :
           hist' = update_scaling_lines(hist, vmin, vmax)
    /\ UNCHANGED <<fm, eng, win, ui, replayed>>

NextHistogram == HistogramUpdate \/ HistogramScalingLines

SpecHistogram == Init /\ [][NextHistogram]_vars

\* C21: whatever the array and the number of bins (1 or more), the bin
\* counts of the histogram add up to the number of finite samples of the
\* array: a sample that is not finite is in no bin and a finite one in
\* exactly one, the smallest and the largest included; with no finite
\* sample there is no bin at all.
C21_counts_sum_to_finite_samples ==
    hist.current_data # NoArray =>
        LET data == hist.current_data
            finite == {k \in 1..Len(data.v) : data.v[k] # NaN}
        IN  \A bins \in BinCounts :
                LET counts == histogram_counts(hist, bins)
                IN  IF finite = {} THEN counts = <<>>
                    ELSE /\ Len(counts) = bins
                         /\ SeqSum(counts) = Cardinality(finite)

\* C21 witness: the histogram of an array with one sample that is not
\* finite and two different finite ones, the smallest and the largest.
C21_extremes_and_nan ==
    /\ hist.current_data # NoArray
    /\ hist.current_data.v = <<3, NaN, 0 - 2>>
    /\ hist.bars = hist.current_data
    /\ SeqSum(histogram_counts(hist, MaxBins)) = 2

\* The largest count of a bin in the colour checks.
MaxCount == 8

\* A colouring whose green channel rises on entering the second band.
bar_color_green_step(count, max) ==
    IF 4 * count < max
    THEN [r |-> 0, g |-> 16 * max - 40 * count, b |-> 20 * max]
    ELSE IF 2 * count < max
    THEN [r |-> 40 * count - 10 * max, g |-> 8 * max, b |-> 20 * max]
    ELSE IF 4 * count < 3 * max
    THEN [r |-> 40 * count - 10 * max, g |-> 0, b |-> 35 * max - 30 * count]
    ELSE [r |-> 20 * max, g |-> 0, b |-> 40 * max - 40 * count]

\* The (r, g, b) of the bar of a bin, nc = count / max, each channel in
\* units of 1 / (20 * max) so that every value is an integer.
bar_color(count, max) ==
    IF 4 * count < max
    THEN [r |-> 0, g |-> 16 * max - 40 * count, b |-> 20 * max]
    ELSE IF 2 * count < max
    THEN [r |-> 40 * count - 10 * max, g |-> 4 * max, b |-> 20 * max]
    ELSE IF 4 * count < 3 * max
    THEN [r |-> 40 * count - 10 * max, g |-> 0, b |-> 35 * max - 30 * count]
    ELSE [r |-> 20 * max, g |-> 0, b |-> 40 * max - 40 * count]

\* C22: the colour of a bin follows from nc = count / maxCount through four
\* bands split at 0.25, 0.5 and 0.75; every channel is within [0, 1] for
\* every nc in [0, 1]; and over the whole range, band boundaries included,
\* red never decreases and green and blue never increase as nc grows. The
\* bars of the histogram on the axes are coloured so.
C22_colors_banded_and_monotone ==
    LET unit(m) == 20 * m
        channels(c) == {c.r, c.g, c.b}
    IN  /\ \A m \in 1..MaxCount : \A c \in 0..m :
               \A x \in channels(bar_color(c, m)) : 0 <= x /\ x <= unit(m)
        /\ \A m1, m2 \in 1..MaxCount : \A c1 \in 0..m1 : \A c2 \in 0..m2 :
               c1 * m2 <= c2 * m1 =>
                   /\ bar_color(c1, m1).r * m2 <= bar_color(c2, m2).r * m1
                   /\ bar_color(c1, m1).g * m2 >= bar_color(c2, m2).g * m1
                   /\ bar_color(c1, m1).b * m2 >= bar_color(c2, m2).b * m1
        /\ bar_color(0, 4) = [r |-> 0, g |-> 64, b |-> 80]
        /\ bar_color(1, 4) = [r |-> 0, g |-> 16, b |-> 80]
        /\ bar_color(2, 4) = [r |-> 40, g |-> 0, b |-> 80]
        /\ bar_color(3, 4) = [r |-> 80, g |-> 0, b |-> 40]
        /\ bar_color(4, 4) = [r |-> 80, g |-> 0, b |-> 0]
        /\ bar_color(1, 8) = [r |-> 0, g |-> 88, b |-> 160]
        /\ bar_color(3, 8) = [r |-> 40, g |-> 32, b |-> 160]
        /\ bar_color(5, 8) = [r |-> 120, g |-> 0, b |-> 130]
        /\ bar_color(7, 8) = [r |-> 160, g |-> 0, b |-> 40]
        /\ \A bins \in BinCounts :
               LET counts == histogram_counts(hist, bins)
                   top == CHOOSE t \in {counts[b] : b \in 1..Len(counts)} \cup {0} :
                              \A b \in 1..Len(counts) : counts[b] <= t
               IN  \A i, j \in 1..Len(counts) :
                       counts[i] <= counts[j] =>
                           /\ bar_color(counts[i], top).r <= bar_color(counts[j], top).r
                           /\ bar_color(counts[i], top).g >= bar_color(counts[j], top).g
                           /\ bar_color(counts[i], top).b >= bar_color(counts[j], top).b

\* C22 witness: a histogram on the axes with bars of three different
\* heights, an empty bin among them.
C22_bars_of_three_heights ==
    /\ hist.bars # NoArray
    /\ LET counts == histogram_counts(hist, MaxBins)
       IN  {counts[b] : b \in 1..Len(counts)} = {0, 1, 2}

\* C23: update_scaling_lines(vmin, vmax) replaces the two markers and
\* nothing else: the histogram's array, its bars and their counts stay as
\* they were; a histogram that was never given an array is left unchanged.
C23_only_markers_replaced ==
    \A vmin, vmax \in EngineLimits :
        LET h == update_scaling_lines(hist, vmin, vmax)
        IN  IF hist.current_data = NoArray THEN h = hist
            ELSE /\ h.current_data = hist.current_data
                 /\ h.bars = hist.bars
                 /\ \A bins \in {MaxBins, DefaultBins} :
                        histogram_counts(h, bins) = histogram_counts(hist, bins)
                 /\ h.vmin_line = Some(vmin)
                 /\ h.vmax_line = Some(vmax)

\* C23 witness: a histogram with bars and a marker at a place where only
\* update_scaling_lines draws one.
C23_markers_moved ==
    /\ hist.bars # NoArray
    /\ hist.bars = hist.current_data
    /\ hist.vmin_line = Some(10 * Scale)
    /\ hist.vmax_line = Some(0)

\* ------------------------------------------- the status timer at work

\* status_timer.timeout: the callback runs between two user operations.
StatusTimer ==
    /\ Running
    /\ Becomes(update_status_animation(State))
    /\ UNCHANGED replayed

\* The timer beside the operations that open, select, transform and rescale.
NextTimer ==
    \/ OpenFile
    \/ SelectHDU
    \/ Rotate
    \/ FlipHorizontal
    \/ FlipVertical
    \/ MinSlider
    \/ AutoScale
    \/ StatusTimer

SpecTimer == Init /\ [][NextTimer]_vars

\* The state without what the status bar shows: the message and the
\* counter of its animation.
core(S) == [S EXCEPT !.ui.status = "ready", !.ui.status_pulse = 0]

\* C24: the callback of the status timer, run between any two user
\* operations, changes the status bar only: the file manager, the engine,
\* the histogram, the transformation state and the captured arrays are as
\* before it, and every user operation leaves the same state, the status
\* bar apart, whether or not the callback ran just before it.
C24_timer_changes_status_only ==
    Running =>
        LET T == update_status_animation(State)
        IN  /\ T.fm = fm /\ T.eng = eng /\ T.hist = hist /\ T.win = win
            /\ core(T) = core(State)
            /\ \A f \in Files : core(open_file(T, f)) = core(open_file(State, f))
            /\ \A row \in 0..(ui.hdu_list - 1) :
                   core(on_hdu_selected(T, row)) = core(on_hdu_selected(State, row))
            /\ \A angle \in RequestedAngles :
                   core(rotate_image(T, angle).S) = core(rotate_image(State, angle).S)
            /\ \A angle \in CustomAngles :
                   core(rotate_custom(T, angle).S) = core(rotate_custom(State, angle).S)
            /\ core(flip_horizontal_image(T).S) = core(flip_horizontal_image(State).S)
            /\ core(flip_vertical_image(T).S) = core(flip_vertical_image(State).S)
            /\ core(reset_transformations(T).S) = core(reset_transformations(State).S)
            /\ \A value \in UserMinPositions :
                   core(min_slider_setValue(T, value)) = core(min_slider_setValue(State, value))
            /\ \A value \in UserMaxPositions :
                   core(max_slider_setValue(T, value)) = core(max_slider_setValue(State, value))
            /\ core(on_auto_scale(T)) = core(on_auto_scale(State))
            /\ core(on_reset_colormap(T)) = core(on_reset_colormap(State))
            /\ core(on_rgb_to_grayscale(T)) = core(on_rgb_to_grayscale(State))
            /\ \A mode \in UserModes :
                   core(on_scaling_mode_changed(T, mode))
                       = core(on_scaling_mode_changed(State, mode))

\* C24 witness: the callback has run, twice at least, on a window that
\* shows an image rotated and flipped with its scaling limits edited.
C24_ticked_on_transformed_image ==
    /\ Running
    /\ ui.status = "file_loaded"
    /\ ui.status_pulse = 2
    /\ win.rotation_angle = 90
    /\ win.flip_horizontal
    /\ ~win.flip_vertical
    /\ image_loaded(State)
    /\ eng.current_data = transformed(canonical(State), 90, TRUE, FALSE)
    /\ ui.min_slider \in UserMinPositions

\* C25 (as claimed): a failed open reaches the window as an outcome that
\* tells the causes apart: for two files that fits.open rejects for
\* different reasons, FITSFileManager.open_file returns different values.
C25_failure_causes_distinguishable ==
    \A f1, f2 \in BadFiles :
        fits_open(f1) # fits_open(f2) =>
            FM_open_file(fm, f1).ret # FM_open_file(fm, f2).ret

\* C25 failing state: the window after a failed open, the same whichever of
\* the three failures it was: every one of them returns False, leaves the
\* manager alike and ends in the same window state.
C25_same_outcome_for_every_cause ==
    /\ ui.status = "failed_to_open"
    /\ \A f \in BadFiles :
           /\ FM_open_file(fm, f) = [fm |-> FM_init, ret |-> FALSE]
           /\ open_file(State, f) = State
    /\ Cardinality({fits_open(f) : f \in BadFiles}) = 3

\* The values of a scaling mode that are none of the four.
UnknownModes == EngineModes \ Modes

\* C26: with a scaling mode that is none of linear, log, sqrt and asinh the
\* scaling gives the output of linear mode for the same array and limits;
\* set_scaling_mode with such a value changes nothing, so the mode the
\* engine holds is always one of the four.
C26_unknown_mode_is_linear ==
    /\ eng.scaling_mode \in Modes
    /\ \A mode \in UnknownModes :
           /\ set_scaling_mode(eng, mode) = eng
           /\ (eng.current_data # NoArray /\ eng.vmin # None /\ eng.vmax # None) =>
                  apply_scaling([eng EXCEPT !.scaling_mode = mode])
                      = apply_scaling([eng EXCEPT !.scaling_mode = "linear"])

\* C26 witness: an engine in sqrt mode with vmin < vmax on an array of two
\* different values within the limits, where the output for an unknown
\* mode is the normalised linear one and not that of the mode in force.
C26_fallback_differs_from_current ==
    /\ eng.current_data # NoArray
    /\ eng.scaling_mode = "sqrt"
    /\ eng.current_data.v = <<0, 3>>
    /\ eng.vmin = Some(0) /\ eng.vmax = Some(10 * Scale)
    /\ \A mode \in UnknownModes :
           /\ apply_scaling([eng EXCEPT !.scaling_mode = mode])[2]
                  = normalized_value("linear", 3 * Scale, 0, 10 * Scale)
           /\ apply_scaling([eng EXCEPT !.scaling_mode = mode]) # apply_scaling(eng)

\* C27 (as claimed): on a loaded image, accepting the custom rotation
\* dialog at an angle a of [-360, 360] leaves the rotation angle a mod 360
\* and displays the canonical array transformed with that angle and the
\* flips in force, whatever the rotation before; a = 0 brings a rotated
\* image back to the unrotated orientation.
C27_custom_angle_replaces ==
    (Running /\ image_loaded(State)) =>
        \A a \in CustomAngles :
            LET r == rotate_custom(State, a).S
            IN  /\ r.win.rotation_angle = a % 360
                /\ r.eng.current_data
                       = transformed(canonical(State), a % 360,
                                     win.flip_horizontal, win.flip_vertical)

\* C27 failing state: an image displayed rotated by 90 degrees on which the
\* dialog accepted at 0 changes nothing: the angle stays 90 and the array
\* displayed stays the rotated one.
C27_zero_keeps_rotation ==
    /\ Running
    /\ image_loaded(State)
    /\ win.rotation_angle = 90
    /\ eng.current_data = transformed(canonical(State), 90,
                                      win.flip_horizontal, win.flip_vertical)
    /\ eng.current_data # transformed(canonical(State), 0,
                                      win.flip_horizontal, win.flip_vertical)
    /\ rotate_custom(State, 0).S = State

\* The two markers of the histogram are at the engine's vmin and vmax.
markers_at_bounds(S) ==
    S.hist.vmin_line = S.eng.vmin /\ S.hist.vmax_line = S.eng.vmax

\* C28 (as claimed): when an operation that touches the scaling limits has
\* completed on a loaded image (a slider edit, Auto Scale, Reset View, the
\* load of an HDU, a rotation or a flip), the markers of the histogram are
\* at the engine's (vmin, vmax); after Auto Scale the engine's limits are
\* the pair auto_scale returned, whatever the slider updates did.
C28_markers_follow_bounds ==
    (Running /\ image_loaded(State) /\ image_selected(State)) =>
        /\ \A T \in {min_slider_setValue(State, v) : v \in UserMinPositions}
                  \cup {max_slider_setValue(State, v) : v \in UserMaxPositions}
                  \cup {on_auto_scale(State), on_reset_colormap(State),
                        on_hdu_selected(State, win.current_hdu_index)}
                  \cup {open_file(State, f) : f \in GoodFiles}
                  \cup {rotate_image(State, angle).S : angle \in MenuAngles}
                  \cup {flip_horizontal_image(State).S, flip_vertical_image(State).S} :
               markers_at_bounds(T)
        /\ on_auto_scale(State).eng.vmin = Some(auto_scale(eng)[1])
        /\ on_auto_scale(State).eng.vmax = Some(auto_scale(eng)[2])

\* C28 failing state: after Auto Scale the markers are at the pair
\* auto_scale returned while the engine's vmin is the value the min
\* slider's valueChanged callback computed from the slider position.
C28_markers_off_after_auto_scale ==
    /\ Running
    /\ image_loaded(State)
    /\ hist.vmin_line = Some(auto_scale(eng)[1])
    /\ hist.vmax_line = Some(auto_scale(eng)[2])
    /\ eng.vmin # hist.vmin_line
    /\ eng.vmin = Some(win.data_min
                         + ui.min_slider * ((win.data_max - win.data_min) \div MinSliderMaximum))
    /\ ~markers_at_bounds(State)

\* The file manager has no file open, or one with all three fields set.
manager_consistent(m) ==
    /\ (m.hdulist = "None") <=> (m.filepath = "None")
    /\ m.hdulist = "None" => m.num_hdus = 0

C30_no_array_no_transform_change ==
    (Running /\ eng.current_data # NoArray /\ transformation_source(State) = NoArray) =>
        \A r \in {rotate_image(State, angle) : angle \in MenuAngles}
                     \cup {flip_horizontal_image(State), flip_vertical_image(State)} :
            /\ r.outcome = "none"
            /\ r.S.eng.current_data = eng.current_data
            /\ r.S.win.rotation_angle = win.rotation_angle
            /\ r.S.win.flip_horizontal = win.flip_horizontal
            /\ r.S.win.flip_vertical = win.flip_vertical

\* C30 failing state: a header-only HDU is selected, the engine still holds
\* the image of the HDU selected before, nothing was captured to transform,
\* and a rotation request has left the angle 90 with the display as it was.
C30_angle_set_without_redisplay ==
    /\ Running
    /\ fm.hdulist # "None"
    /\ get_data(fm, win.current_hdu_index) = NoArray
    /\ win.original_data = NoArray
    /\ eng.current_data = RGB
    /\ win.rotation_angle = 90
    /\ ui.status = "confirmation"

====
